---- MODULE Spec2Model ----
(***************************************************************************)
(* Model of src/spec_implement.py (SpeckitImplementer and main).           *)
(*                                                                         *)
(* Text is a sequence of one-character strings; the regular expressions of *)
(* the program are modelled by matchers that follow Python's re semantics  *)
(* (leftmost match, greedy/lazy quantifiers with backtracking, \s matching *)
(* the newline, . not matching it) on the alphabet the inputs are drawn    *)
(* from.                                                                   *)
(***************************************************************************)
EXTENDS Integers, Sequences, FiniteSets, TLC

VARIABLES
  pc,            \* position of run(): prereq, checklists, load, setup, parse, execute, update, done
  result,        \* "none" until run() ends, then "True" or "False" (returned) or "raised"
  feature_dir,   \* self.feature_dir: None or a directory name
  self_tasks,    \* self.tasks: None or the path of the tasks file
  args,          \* parsed command line: [tasks_file, skip_checklists]
  plan,          \* <feature_dir>/plan.md: [exists, content]
  taskfiles,     \* path -> [exists, content] for the tasks files
  checklists,    \* <feature_dir>/checklists: [exists, files], files a sequence of texts
  gitignore,     \* ./.gitignore: [exists, content], content a sequence of lines
  tasks,         \* the list returned by parse_tasks (records mutated by execution)
  execOrder,     \* indices into tasks, in the order _execute_single_task ran
  asked,         \* whether input() was called by check_checklists_status
  response,      \* what input() returned (None: not called, EOF: it raised EOFError)
  git_rc,        \* outcome of "git rev-parse --git-dir" ("none" before the check)
  writes,        \* paths written (opened for writing/appending or touched) during the run
  orig,          \* the tasks-file text before the run
  had_gitignore  \* whether ./.gitignore existed before the run

vars == <<pc, result, feature_dir, self_tasks, args, plan, taskfiles, checklists,
          gitignore, tasks, execOrder, asked, response, git_rc, writes, orig,
          had_gitignore>>

\* ------------------------------------------------------------------------
\* Bounds of the model
\* ------------------------------------------------------------------------
MaxLines == 3

MaxChkLines == 2

\* ------------------------------------------------------------------------
\* Characters and strings
\* ------------------------------------------------------------------------
None == <<"None">>

NL == "\n"

UpperChars == <<"A","B","C","D","E","F","G","H","I","J","K","L","M",
                "N","O","P","Q","R","S","T","U","V","W","X","Y","Z">>

LowerChars == <<"a","b","c","d","e","f","g","h","i","j","k","l","m",
                "n","o","p","q","r","s","t","u","v","w","x","y","z">>

IsSpace(c) == c \in {" ", "\n", "\t"}

IsDigit(c) == c \in {"0","1","2","3","4","5","6","7","8","9"}

LowerChar(c) ==
  IF \E k \in 1..26 : UpperChars[k] = c
  THEN LowerChars[CHOOSE k \in 1..26 : UpperChars[k] = c]
  ELSE c

Lower(s) == [k \in 1..Len(s) |-> LowerChar(s[k])]

At(s, p, lit) ==
  /\ p >= 1
  /\ p + Len(lit) - 1 <= Len(s)
  /\ \A k \in 1..Len(lit) : s[p + k - 1] = lit[k]

Contains(s, sub) == \E p \in 1..(Len(s) + 1) : At(s, p, sub)

MaxOf(S) == CHOOSE x \in S : \A y \in S : y <= x

MinOf(S) == CHOOSE x \in S : \A y \in S : x <= y

\* The position after the longest run of whitespace starting at p.
SkipWS(s, p) ==
  IF p > Len(s) THEN p
  ELSE MinOf({k \in p..(Len(s) + 1) : k > Len(s) \/ ~IsSpace(s[k])})

\* The position of the first newline at or after p, Len(s) + 1 when none.
LineEnd(s, p) ==
  IF p > Len(s) THEN p
  ELSE MinOf({k \in p..(Len(s) + 1) : k > Len(s) \/ s[k] = NL})

\* The position after the longest run of digits starting at p.
SkipDigits(s, p) ==
  IF p > Len(s) THEN p
  ELSE MinOf({k \in p..(Len(s) + 1) : k > Len(s) \/ ~IsDigit(s[k])})

RECURSIVE LStrip(_)
LStrip(s) == IF s # <<>> /\ IsSpace(Head(s)) THEN LStrip(Tail(s)) ELSE s

RECURSIVE RStrip(_)
RStrip(s) ==
  IF s # <<>> /\ IsSpace(s[Len(s)]) THEN RStrip(SubSeq(s, 1, Len(s) - 1)) ELSE s

Strip(s) == RStrip(LStrip(s))

RECURSIVE JoinLines(_)
JoinLines(ls) ==
  IF ls = <<>> THEN <<>>
  ELSE IF Len(ls) = 1 THEN ls[1]
  ELSE ls[1] \o <<NL>> \o JoinLines(Tail(ls))

RECURSIVE SplitFrom(_, _)
SplitFrom(s, p) ==
  LET e == LineEnd(s, p)
  IN IF e > Len(s) THEN << SubSeq(s, p, Len(s)) >>
     ELSE << SubSeq(s, p, e - 1) >> \o SplitFrom(s, e + 1)

SplitLines(s) == SplitFrom(s, 1)

\* ------------------------------------------------------------------------
\* parse_tasks: task_pattern =
\*   -\s*\[\s*\]\s*(T\d{3})\s*(\[P\])?\s*(\[US\d+\])?\s*(.+)
\* ------------------------------------------------------------------------
NoMatch == [ok |-> FALSE]

\* The first alternative the backtracking matcher finds.
OrElse(m, n) == IF m.ok THEN m ELSE n

LastOrZero(C) == IF C = {} THEN 0 ELSE MaxOf(C)

\* \s*(.+) at q: the greedy \s* gives characters back until . can match
\* (any character but the newline); 0 when it never can.
DescStart(s, q) ==
  LastOrZero({r \in q..SkipWS(s, q) : r <= Len(s) /\ s[r] # NL})

\* \[US\d+\] at q, its digits ending before d.
HasStory(s, q, d) == At(s, q, <<"[", "U", "S">>) /\ d > q + 3 /\ At(s, d, <<"]">>)

\* a: the description start with the group taken, b: with the group skipped.
StoryPick(s, q, d, a, b) ==
  IF a # 0 THEN [ok |-> TRUE, story_marker |-> SubSeq(s, q, d), dstart |-> a]
  ELSE IF b # 0 THEN [ok |-> TRUE, story_marker |-> <<>>, dstart |-> b]
  ELSE NoMatch

StoryAt(s, q, d) ==
  StoryPick(s, q, d, IF HasStory(s, q, d) THEN DescStart(s, d + 1) ELSE 0,
            DescStart(s, q))

\* (\[US\d+\])?\s*(.+) at q: the group is tried first, then skipped.
StoryThenDesc(s, q) == StoryAt(s, q, SkipDigits(s, q + 3))

\* \s*(\[US\d+\])?\s*(.+) at q, the \s* tried from r (longest first) down to q.
RECURSIVE WSThenStory(_, _, _)
WSThenStory(s, q, r) ==
  IF r < q THEN NoMatch
  ELSE OrElse(StoryThenDesc(s, r), WSThenStory(s, q, r - 1))

WithParallel(m, marker) ==
  IF m.ok THEN [ok |-> TRUE, parallel_marker |-> marker,
                story_marker |-> m.story_marker, dstart |-> m.dstart]
  ELSE NoMatch

\* (\[P\])?\s*(\[US\d+\])?\s*(.+) at q: the group is tried first, then skipped.
ParallelThenRest(s, q) ==
  OrElse(IF At(s, q, <<"[", "P", "]">>)
         THEN WithParallel(WSThenStory(s, q + 3, SkipWS(s, q + 3)), <<"[", "P", "]">>)
         ELSE NoMatch,
         WithParallel(WSThenStory(s, q, SkipWS(s, q)), <<>>))

\* \s*(\[P\])?... at q, the first \s* tried from r (longest first) down to q.
RECURSIVE WSThenParallel(_, _, _)
WSThenParallel(s, q, r) ==
  IF r < q THEN NoMatch
  ELSE OrElse(ParallelThenRest(s, r), WSThenParallel(s, q, r - 1))

\* The character ch at p and the whitespace after it: the position after
\* them, 0 when p is 0 or ch is not at p.
AfterChar(s, p, ch) == IF p # 0 /\ At(s, p, <<ch>>) THEN SkipWS(s, p + 1) ELSE 0

\* -\s*\[\s*\]\s* at i: the position after it, 0 when it does not match.
BoxPrefix(s, i) == AfterChar(s, AfterChar(s, AfterChar(s, i, "-"), "["), "]")

IsTaskId(s, c) ==
  /\ At(s, c, <<"T">>)
  /\ c + 3 <= Len(s)
  /\ \A k \in 1..3 : IsDigit(s[c + k])

\* The four groups and the end of a match whose identifier is at c.
TaskMatchOf(s, c, m) ==
  IF ~m.ok THEN NoMatch
  ELSE [ok |-> TRUE,
        task_id |-> SubSeq(s, c, c + 3),
        parallel_marker |-> m.parallel_marker,
        story_marker |-> m.story_marker,
        description |-> SubSeq(s, m.dstart, LineEnd(s, m.dstart) - 1),
        end |-> LineEnd(s, m.dstart)]

TaskMatchFrom(s, c) ==
  IF c = 0 \/ ~IsTaskId(s, c) THEN NoMatch
  ELSE TaskMatchOf(s, c, WSThenParallel(s, c + 4, SkipWS(s, c + 4)))

\* task_pattern tried at position i.
TaskMatchAt(s, i) == TaskMatchFrom(s, BoxPrefix(s, i))

\* re.findall(task_pattern, content): leftmost non-overlapping matches.
RECURSIVE FindAllTasks(_, _)
TasksFromMatch(s, m) == <<m>> \o FindAllTasks(s, m.end)

TasksFromFirst(s, C) ==
  IF C = {} THEN <<>> ELSE TasksFromMatch(s, TaskMatchAt(s, MinOf(C)))

FindAllTasks(s, i) == TasksFromFirst(s, {k \in i..Len(s) : TaskMatchAt(s, k).ok})

\* story_marker[3:-1] if story_marker else None
StoryOf(story_marker) ==
  IF story_marker # <<>> THEN SubSeq(story_marker, 4, Len(story_marker) - 1) ELSE None

TaskOf(m) ==
  [id |-> m.task_id,
   description |-> Strip(m.description),
   is_parallel |-> m.parallel_marker # <<>>,
   story |-> StoryOf(m.story_marker),
   completed |-> FALSE]

TasksOf(ms) == [k \in 1..Len(ms) |-> TaskOf(ms[k])]

ParseText(content) == TasksOf(FindAllTasks(content, 1))

\* ------------------------------------------------------------------------
\* execute_implementation, _execute_phase_tasks, _execute_single_task
\* ------------------------------------------------------------------------
Str_setup == <<"s","e","t","u","p">>

Str_foundational == <<"f","o","u","n","d","a","t","i","o","n","a","l">>

Str_polish == <<"p","o","l","i","s","h">>

Str_unknown == <<"u","n","k","n","o","w","n">>

\* Python truth value of task['story']: None and the empty string are false.
Truthy(x) == x # None /\ x # <<>>

PhaseOf(task) ==
  IF ~Truthy(task.story) /\ Contains(Lower(task.description), Str_setup)
  THEN Str_setup
  ELSE IF ~Truthy(task.story) /\ Contains(Lower(task.description), Str_foundational)
  THEN Str_foundational
  ELSE IF Truthy(task.story) THEN task.story
  ELSE Str_polish

SelectIdx(ts, idxs, par) ==
  SelectSeq(idxs, LAMBDA k : ts[k].is_parallel = par)

\* A phase executed in file order.
PhaseOrder_FileOrder(ts, phase_tasks) == phase_tasks

\* _execute_phase_tasks: the parallel tasks of the group, then the sequential.
PhaseOrder(ts, phase_tasks) ==
  SelectIdx(ts, phase_tasks, TRUE) \o SelectIdx(ts, phase_tasks, FALSE)

\* The loop of execute_implementation from task i on: the order in which
\* _execute_single_task is called (indices into ts).
RECURSIVE ExecLoop(_, _, _, _, _)
ExecLoop(ts, i, current_phase, phase_tasks, log) ==
  IF i > Len(ts)
  THEN IF phase_tasks # <<>> THEN log \o PhaseOrder(ts, phase_tasks) ELSE log
  ELSE LET phase == PhaseOf(ts[i])
       IN IF phase # current_phase
          THEN ExecLoop(ts, i + 1, phase, <<i>>,
                        IF phase_tasks # <<>>
                        THEN log \o PhaseOrder(ts, phase_tasks) ELSE log)
          ELSE ExecLoop(ts, i + 1, current_phase, Append(phase_tasks, i), log)

ExecutionOrder(ts) == ExecLoop(ts, 1, Str_unknown, <<>>, <<>>)

\* _execute_single_task on every index of order: task['completed'] = True.
MarkCompleted(ts, order) ==
  [k \in 1..Len(ts) |->
     IF \E j \in 1..Len(order) : order[j] = k
     THEN [ts[k] EXCEPT !.completed = TRUE] ELSE ts[k]]

\* ------------------------------------------------------------------------
\* update_tasks_file: pattern =
\*   (-\s*\[\s*\]\s*{id}\s*.*?{description})
\* with the description interpolated unescaped, so it is read as a regular
\* expression.  The inputs range over an alphabet whose characters special
\* to re are  [ ] ( + .  (no backslash, no ")", no "^" or "-" inside
\* brackets, no "++").
\* ------------------------------------------------------------------------
RECURSIVE ClassEnd(_, _)
ClassEnd(d, j) ==
  IF j > Len(d) THEN 0 ELSE IF d[j] = "]" THEN j ELSE ClassEnd(d, j + 1)

\* The description compiled as a regular expression: a sequence of elements
\* [any, set, plus], or an error (re.error raised by re.sub).
RECURSIVE CompileFrom(_, _, _)
CompileFrom(d, i, elems) ==
  IF i > Len(d) THEN [ok |-> TRUE, elems |-> elems]
  ELSE IF d[i] = "["
  THEN LET j == ClassEnd(d, i + 2)
       IN IF j = 0 THEN [ok |-> FALSE, elems |-> <<>>]
          ELSE CompileFrom(d, j + 1,
                 Append(elems, [any |-> FALSE, plus |-> FALSE,
                                set |-> {d[k] : k \in (i + 1)..(j - 1)}]))
  ELSE IF d[i] \in {"(", ")"} THEN [ok |-> FALSE, elems |-> <<>>]
  ELSE IF d[i] = "+"
  THEN IF elems = <<>> \/ elems[Len(elems)].plus
       THEN [ok |-> FALSE, elems |-> <<>>]
       ELSE CompileFrom(d, i + 1,
              [elems EXCEPT ![Len(elems)] = [@ EXCEPT !.plus = TRUE]])
  ELSE IF d[i] = "."
  THEN CompileFrom(d, i + 1, Append(elems, [any |-> TRUE, plus |-> FALSE, set |-> {}]))
  ELSE CompileFrom(d, i + 1,
         Append(elems, [any |-> FALSE, plus |-> FALSE, set |-> {d[i]}]))

CompileDescription(d) == CompileFrom(d, 1, <<>>)

ElemMatches(e, c) == IF e.any THEN c # NL ELSE c \in e.set

\* The length of the longest run of characters matching e from p on.
RunLen(e, s, p) ==
  MinOf({k \in p..(Len(s) + 1) : k > Len(s) \/ ~ElemMatches(e, s[k])}) - p

\* The elements from k on matched at p: the position after the match, 0 when
\* there is none.  X+ is greedy and gives back one repetition at a time.
RECURSIVE MatchElems(_, _, _, _)
RECURSIVE TryPlus(_, _, _, _, _)
MatchElems(elems, k, s, p) ==
  IF k > Len(elems) THEN p
  ELSE IF elems[k].plus THEN TryPlus(elems, k, s, p, RunLen(elems[k], s, p))
  ELSE IF p <= Len(s) /\ ElemMatches(elems[k], s[p])
  THEN MatchElems(elems, k + 1, s, p + 1)
  ELSE 0

TryPlus(elems, k, s, p, n) ==
  IF n < 1 THEN 0
  ELSE LET r == MatchElems(elems, k + 1, s, p + n)
       IN IF r # 0 THEN r ELSE TryPlus(elems, k, s, p, n - 1)

\* .*?{description} at k: the lazy .*? takes one more character (never the
\* newline) until the description matches.
LazyThenDesc(elems, s, k) ==
  LET C == {j \in k..LineEnd(s, k) : MatchElems(elems, 1, s, j) # 0}
  IN IF C = {} THEN 0 ELSE MatchElems(elems, 1, s, MinOf(C))

\* \s*.*?{description} at q, the \s* tried from r (longest first) down to q.
RECURSIVE WSThenLazy(_, _, _, _)
WSThenLazy(elems, s, q, r) ==
  IF r < q THEN 0
  ELSE LET e == LazyThenDesc(elems, s, r)
       IN IF e # 0 THEN e ELSE WSThenLazy(elems, s, q, r - 1)

\* The whole pattern tried at i: the position after the match, 0 when none.
UpdateMatchAt(s, i, id, elems) ==
  LET c == BoxPrefix(s, i)
  IN IF c = 0 \/ ~At(s, c, id) THEN 0
     ELSE WSThenLazy(elems, s, c + Len(id), SkipWS(s, c + Len(id)))

Replacement(task) ==
  <<"-", " ", "[", "X", "]", " ">> \o task.id
    \o (IF task.is_parallel THEN <<" ", "[", "P", "]">> ELSE <<>>)
    \o (IF Truthy(task.story) THEN <<" ", "[">> \o task.story \o <<"]">> ELSE <<>>)
    \o <<" ">> \o task.description

\* re.sub(pattern, replacement, content) from position i on.
RECURSIVE SubFrom(_, _, _, _)
SubFrom(s, i, task, elems) ==
  LET C == {k \in i..Len(s) : UpdateMatchAt(s, k, task.id, elems) # 0}
  IN IF C = {} THEN SubSeq(s, i, Len(s))
     ELSE LET k == MinOf(C)
          IN SubSeq(s, i, k - 1) \o Replacement(task)
               \o SubFrom(s, UpdateMatchAt(s, k, task.id, elems), task, elems)

\* The loop of update_tasks_file over the tasks from k on: the new content,
\* or raised when a pattern does not compile.
RECURSIVE UpdateLoop(_, _, _)
UpdateLoop(content, ts, k) ==
  IF k > Len(ts) THEN [raised |-> FALSE, content |-> content]
  ELSE IF ~ts[k].completed THEN UpdateLoop(content, ts, k + 1)
  ELSE LET re == CompileDescription(ts[k].description)
       IN IF ~re.ok THEN [raised |-> TRUE, content |-> <<>>]
          ELSE UpdateLoop(SubFrom(content, 1, ts[k], re.elems), ts, k + 1)

UpdateText(content, ts) == UpdateLoop(content, ts, 1)

\* ------------------------------------------------------------------------
\* check_checklists_status: re.findall(r'-\s*\[([ xX])\]\s*(.+)', content)
\* ------------------------------------------------------------------------
ItemMatchOf(s, a, ds) ==
  IF ds = 0 THEN NoMatch
  ELSE [ok |-> TRUE, status |-> s[a + 1], end |-> LineEnd(s, ds)]

\* The match whose "[" is expected at a (0: no "-" before it).
ItemMatchFrom(s, a) ==
  IF a # 0 /\ At(s, a, <<"[">>) /\ a + 2 <= Len(s)
     /\ s[a + 1] \in {" ", "x", "X"} /\ s[a + 2] = "]"
  THEN ItemMatchOf(s, a, DescStart(s, a + 3))
  ELSE NoMatch

ItemMatchAt(s, i) == ItemMatchFrom(s, AfterChar(s, i, "-"))

RECURSIVE FindAllItems(_, _)
ItemsFromMatch(s, m) == <<m.status>> \o FindAllItems(s, m.end)

ItemsFromFirst(s, C) ==
  IF C = {} THEN <<>> ELSE ItemsFromMatch(s, ItemMatchAt(s, MinOf(C)))

FindAllItems(s, i) == ItemsFromFirst(s, {k \in i..Len(s) : ItemMatchAt(s, k).ok})

\* The statuses counted as completed: status.lower() in ['x', 'X'].
CompletedItems(all_items) ==
  {k \in 1..Len(all_items) : LowerChar(all_items[k]) \in {"x", "X"}}

StatsOf(all_items) ==
  [total |-> Len(all_items),
   completed |-> Cardinality(CompletedItems(all_items)),
   incomplete |-> Len(all_items) - Cardinality(CompletedItems(all_items))]

\* total_items, completed_items, incomplete_items of one checklist file.
ChecklistStats(content) == StatsOf(FindAllItems(content, 1))

\* all_passed after the loop over checklist_status.
AllPassed(files) ==
  \A k \in 1..Len(files) : ~(ChecklistStats(files[k]).incomplete > 0)

Affirmative ==
  {<<"y","e","s">>,
   <<"y">>,
   <<"p","r","o","c","e","e","d">>,
   <<"c","o","n","t","i","n","u","e">>}

\* ------------------------------------------------------------------------
\* project_setup_verification and the _create_*_ignore helpers
\* ------------------------------------------------------------------------
PythonWords ==
  {<<"p","y","t","h","o","n">>,
   <<"p","i","p">>,
   <<"v","e","n","v">>}

JavascriptWords ==
  {<<"n","o","d","e">>,
   <<"n","p","m">>,
   <<"y","a","r","n">>,
   <<"j","a","v","a","s","c","r","i","p","t">>,
   <<"t","y","p","e","s","c","r","i","p","t">>}

JavaWords ==
  {<<"j","a","v","a">>,
   <<"g","r","a","d","l","e">>,
   <<"m","a","v","e","n">>}

AnyIn(words, text) == \E w \in words : Contains(text, w)

\* tech_indicators, in the order the code appends them.
TechIndicators(plan_content) ==
  (IF AnyIn(PythonWords, plan_content) THEN <<"python">> ELSE <<>>)
    \o (IF AnyIn(JavascriptWords, plan_content) THEN <<"javascript">> ELSE <<>>)
    \o (IF AnyIn(JavaWords, plan_content) THEN <<"java">> ELSE <<>>)

IgnorePatterns(tech) ==
  IF tech = "python"
  THEN <<"\n# Python\n", "__pycache__/\n", "*.pyc\n", ".venv/\n", "venv/\n",
         "dist/\n", "*.egg-info/\n", ".env*\n", "*.log\n">>
  ELSE IF tech = "javascript"
  THEN <<"\n# Node.js\n", "node_modules/\n", "dist/\n", "build/\n", "*.log\n", ".env*\n">>
  ELSE <<"\n# Java\n", "target/\n", "*.class\n", "*.jar\n", ".gradle/\n", "build/\n">>

\* open(".gitignore", 'a') then writelines: the file is created when absent.
AppendIgnore(g, tech) ==
  [exists |-> TRUE, content |-> g.content \o IgnorePatterns(tech)]

RECURSIVE AppendAll(_, _)
AppendAll(g, techs) ==
  IF techs = <<>> THEN g ELSE AppendAll(AppendIgnore(g, Head(techs)), Tail(techs))

\* is_git_repo = (returncode == 0); an exception of subprocess.run leaves it False.
IsGitRepo(git) == git = "zero"

\* The .gitignore after the "if is_git_repo:" block.
TouchIgnore(g, is_git_repo) ==
  IF is_git_repo /\ ~g.exists THEN [exists |-> TRUE, content |-> <<>>] ELSE g

\* ------------------------------------------------------------------------
\* Paths
\* ------------------------------------------------------------------------
DirA ==
  <<"s","p","e","c","s","/","A">>

PathP ==
  <<"o","t","h","e","r",".","m","d">>

GitignorePath ==
  <<".","g","i","t","i","g","n","o","r","e">>

\* Path(self.feature_dir) / "tasks.md"
TasksPath(dir) ==
  dir \o <<"/","t","a","s","k","s",".","m","d">>

\* ------------------------------------------------------------------------
\* Inputs: the texts the files are drawn from
\* ------------------------------------------------------------------------
\* - [ ] T001 [P] setup
Line_setup ==
  <<"-"," ","["," ","]"," ","T","0","0","1"," ","[","P","]"," ","s","e","t","u","p">>

\* - [ ] T002 [US1] b
Line_story ==
  <<"-"," ","["," ","]"," ","T","0","0","2"," ","[","U","S","1","]"," ","b">>

\* - [ ] T003 a+b
Line_plus ==
  <<"-"," ","["," ","]"," ","T","0","0","3"," ","a","+","b">>

\* - [ ] T004
Line_bare ==
  <<"-"," ","["," ","]"," ","T","0","0","4">>

\* # h
Line_heading ==
  <<"#"," ","h">>

\* - [X] T005 d
Line_checked ==
  <<"-"," ","[","X","]"," ","T","0","0","5"," ","d">>

\* - [ ] T006 [P] [US1] Setup
Line_both ==
  <<"-"," ","["," ","]"," ","T","0","0","6"," ","[","P","]"," ","[","U","S","1","]"," ",
    "S","e","t","u","p">>

\* - [ ] T007 Foundational
Line_found ==
  <<"-"," ","["," ","]"," ","T","0","0","7"," ","F","o","u","n","d","a","t","i","o","n",
    "a","l">>

\* - [ ] T008 c (d
Line_paren ==
  <<"-"," ","["," ","]"," ","T","0","0","8"," ","c"," ","(","d">>

\* - [ ] T009 [US2] [P] e
Line_swapped ==
  <<"-"," ","["," ","]"," ","T","0","0","9"," ","[","U","S","2","]"," ","[","P","]"," ",
    "e">>

\* 
Line_blank ==
  <<>>

Lines ==
  {Line_setup, Line_story, Line_plus, Line_bare, Line_heading, Line_checked,
   Line_both, Line_found, Line_paren, Line_swapped, Line_blank}

\* - [ ] T001 [P] Setup project
Example_1 ==
  <<"-"," ","["," ","]"," ","T","0","0","1"," ","[","P","]"," ","S","e","t","u","p"," ",
    "p","r","o","j","e","c","t">>

\* - [ ] T002 [US1] Implement feature
Example_2 ==
  <<"-"," ","["," ","]"," ","T","0","0","2"," ","[","U","S","1","]"," ","I","m","p","l",
    "e","m","e","n","t"," ","f","e","a","t","u","r","e">>

\* - [X] T001 [P] Setup project
Example_1_checked ==
  <<"-"," ","[","X","]"," ","T","0","0","1"," ","[","P","]"," ","S","e","t","u","p"," ",
    "p","r","o","j","e","c","t">>

\* - [X] T002 [US1] Implement feature
Example_2_checked ==
  <<"-"," ","[","X","]"," ","T","0","0","2"," ","[","U","S","1","]"," ","I","m","p","l",
    "e","m","e","n","t"," ","f","e","a","t","u","r","e">>

ExampleFile == JoinLines(<<Example_1, Example_2>>)

\* - [x] a
Chk_done ==
  <<"-"," ","[","x","]"," ","a">>

\* - [ ] b
Chk_open ==
  <<"-"," ","["," ","]"," ","b">>

\* - [X]
Chk_empty ==
  <<"-"," ","[","X","]">>

\* n
Chk_prose ==
  <<"n">>

ChkLines == {Chk_done, Chk_open, Chk_empty, Chk_prose}

\* Rust
Plan_none ==
  <<"R","u","s","t">>

\* Python 3
Plan_python ==
  <<"P","y","t","h","o","n"," ","3">>

\* JavaScript
Plan_js ==
  <<"J","a","v","a","S","c","r","i","p","t">>

\* Java
Plan_java ==
  <<"J","a","v","a">>

PlanTexts == {Plan_none, Plan_python, Plan_js, Plan_java}

\* yes
Ans_yes ==
  <<"y","e","s">>

\*  Y 
Ans_Y ==
  <<" ","Y"," ">>

\* Proceed
Ans_proceed ==
  <<"P","r","o","c","e","e","d">>

\* continue
Ans_continue ==
  <<"c","o","n","t","i","n","u","e">>

\* no
Ans_no ==
  <<"n","o">>

\* 
Ans_empty ==
  <<>>

\* yeah
Ans_yeah ==
  <<"y","e","a","h">>

EOF == <<"EOF">>

Answers == {Ans_yes, Ans_Y, Ans_proceed, Ans_continue, Ans_no, Ans_empty, Ans_yeah, EOF}

\* All sequences over S of length at most n.
SeqsUpTo(S, n) == UNION {[1..k -> S] : k \in 0..n}

\* Tasks files of at most MaxLines lines.
TextContents == {JoinLines(ls) : ls \in SeqsUpTo(Lines, MaxLines)}

\* Tasks files of the runs with a varying environment.
RunTexts == {ExampleFile, JoinLines(<<Line_bare, Line_heading>>)}

\* Checklist files of at most MaxChkLines lines.
ChkTexts == {JoinLines(ls) : ls \in SeqsUpTo(ChkLines, MaxChkLines)}

\* Outcomes of the check-prerequisites script: absent, non-zero exit, output
\* that json.loads or data.get rejects, or a JSON object with or without a
\* FEATURE_DIR key (null is None).
ScriptOutcomes ==
  {[kind |-> "no_script", has_dir |-> FALSE, dir |-> None],
   [kind |-> "nonzero", has_dir |-> FALSE, dir |-> None],
   [kind |-> "exception", has_dir |-> FALSE, dir |-> None],
   [kind |-> "ok", has_dir |-> FALSE, dir |-> None],
   [kind |-> "ok", has_dir |-> TRUE, dir |-> None],
   [kind |-> "ok", has_dir |-> TRUE, dir |-> DirA]}

\* Outcomes of "git rev-parse --git-dir".
GitOutcomes == {"zero", "nonzero", "exception"}

\* ------------------------------------------------------------------------
\* State after main() has built the implementer and applied the arguments
\* ------------------------------------------------------------------------
FileExists(path) == path \in DOMAIN taskfiles /\ taskfiles[path].exists

\* SpeckitImplementer(args.feature_dir), implementer.tasks = Path(args.tasks_file):
\* feature_dir is args.feature_dir or the result of find_feature_dir().
Init ==
  /\ pc = "prereq"
  /\ result = "none"
  /\ feature_dir \in {None, DirA}
  /\ args \in [tasks_file : {None, PathP}, skip_checklists : BOOLEAN]
  /\ self_tasks = args.tasks_file
  /\ \E e \in BOOLEAN, c \in PlanTexts :
       plan = [exists |-> e, content |-> IF e THEN c ELSE <<>>]
  /\ orig \in RunTexts
  /\ \E e \in BOOLEAN :
       taskfiles = (TasksPath(DirA) :> [exists |-> e, content |-> orig])
                     @@ (PathP :> [exists |-> TRUE, content |-> orig])
  /\ \E e \in BOOLEAN, f \in ChkTexts :
       checklists = [exists |-> e, files |-> IF e THEN <<f>> ELSE <<>>]
  /\ had_gitignore \in BOOLEAN
  /\ gitignore = [exists |-> had_gitignore, content |-> <<>>]
  /\ tasks = <<>>
  /\ execOrder = <<>>
  /\ asked = FALSE
  /\ response = None
  /\ git_rc = "none"
  /\ writes = {}

\* A run that has loaded its context and verified the project: a feature
\* directory with plan.md and tasks.md, no repository, no technology keyword.
InitText ==
  /\ pc = "parse"
  /\ result = "none"
  /\ feature_dir = DirA
  /\ args = [tasks_file |-> None, skip_checklists |-> FALSE]
  /\ self_tasks = TasksPath(DirA)
  /\ plan = [exists |-> TRUE, content |-> Plan_none]
  /\ orig \in TextContents
  /\ taskfiles = (TasksPath(DirA) :> [exists |-> TRUE, content |-> orig])
                   @@ (PathP :> [exists |-> TRUE, content |-> orig])
  /\ checklists = [exists |-> FALSE, files |-> <<>>]
  /\ had_gitignore = FALSE
  /\ gitignore = [exists |-> FALSE, content |-> <<>>]
  /\ tasks = <<>>
  /\ execOrder = <<>>
  /\ asked = FALSE
  /\ response = None
  /\ git_rc = "nonzero"
  /\ writes = {}

\* ------------------------------------------------------------------------
\* The steps of run()
\* ------------------------------------------------------------------------
\* data.get("FEATURE_DIR", self.feature_dir) when the script succeeded.
DirAfterScript(o, dir) == IF o.kind = "ok" /\ o.has_dir THEN o.dir ELSE dir

RunCheckPrerequisites ==
  /\ pc = "prereq"
  /\ \E o \in ScriptOutcomes : feature_dir' = DirAfterScript(o, feature_dir)
  /\ pc' = "checklists"
  /\ UNCHANGED <<result, self_tasks, args, plan, taskfiles, checklists, gitignore,
                 tasks, execOrder, asked, response, git_rc, writes, orig, had_gitignore>>

\* Whether check_checklists_status reaches input(): not replaced by the
\* --skip-checklists lambda, a feature directory, a checklists directory,
\* and a file with incomplete items.
Prompts ==
  /\ ~args.skip_checklists
  /\ Truthy(feature_dir)
  /\ checklists.exists
  /\ ~AllPassed(checklists.files)

\* The value check_checklists_status returns ("raised": input() met EOF).
ChecklistAnswer(ans) ==
  IF ~Prompts THEN "True"
  ELSE IF ans = EOF THEN "raised"
  ELSE IF Lower(Strip(ans)) \in Affirmative THEN "True"
  ELSE "False"

\* run() after check_checklists_status answered r.
AfterChecklists(r) ==
  /\ pc' = IF r = "True" THEN "load" ELSE "done"
  /\ result' = IF r = "True" THEN result ELSE r

CheckChecklistsStatus ==
  /\ pc = "checklists"
  /\ \E ans \in Answers :
       /\ AfterChecklists(ChecklistAnswer(ans))
       /\ response' = IF Prompts THEN ans ELSE response
  /\ asked' = Prompts
  /\ UNCHANGED <<feature_dir, self_tasks, args, plan, taskfiles, checklists,
                 gitignore, tasks, execOrder, git_rc, writes, orig, had_gitignore>>

\* A load step that requires plan.md only.
RequiredFilesExist_PlanOnly(dir) == plan.exists

\* required_files = [self.impl_plan, self.tasks] all exist.
RequiredFilesExist(dir) == plan.exists /\ FileExists(TasksPath(dir))

LoadImplementationContext ==
  /\ pc = "load"
  /\ self_tasks' = IF Truthy(feature_dir) THEN TasksPath(feature_dir) ELSE self_tasks
  /\ pc' = IF Truthy(feature_dir) /\ RequiredFilesExist(feature_dir)
           THEN "setup" ELSE "done"
  /\ result' = IF Truthy(feature_dir) /\ RequiredFilesExist(feature_dir)
               THEN result ELSE "False"
  /\ UNCHANGED <<feature_dir, args, plan, taskfiles, checklists, gitignore,
                 tasks, execOrder, asked, response, git_rc, writes, orig, had_gitignore>>

\* The technologies whose ignore rules are appended.
TechsOfPlan == IF plan.exists THEN TechIndicators(Lower(plan.content)) ELSE <<>>

\* Whether project_setup_verification touches or appends to .gitignore.
SetupWrites(is_git_repo) ==
  IF is_git_repo /\ ~gitignore.exists THEN TRUE ELSE TechsOfPlan # <<>>

ProjectSetupVerification ==
  /\ pc = "setup"
  /\ git_rc' \in GitOutcomes
  /\ gitignore' = AppendAll(TouchIgnore(gitignore, IsGitRepo(git_rc')), TechsOfPlan)
  /\ writes' = IF SetupWrites(IsGitRepo(git_rc'))
               THEN writes \cup {GitignorePath} ELSE writes
  /\ pc' = "parse"
  /\ UNCHANGED <<result, feature_dir, self_tasks, args, plan, taskfiles, checklists,
                 tasks, execOrder, asked, response, orig, had_gitignore>>

\* "not self.tasks or not self.tasks.exists()" is false.
TasksFileThere == Truthy(self_tasks) /\ FileExists(self_tasks)

ParseTasks ==
  /\ pc = "parse"
  /\ tasks' = IF TasksFileThere THEN ParseText(taskfiles[self_tasks].content) ELSE tasks
  /\ pc' = IF TasksFileThere THEN "execute" ELSE "done"
  /\ result' = IF TasksFileThere THEN result ELSE "False"
  /\ UNCHANGED <<feature_dir, self_tasks, args, plan, taskfiles, checklists,
                 gitignore, execOrder, asked, response, git_rc, writes, orig, had_gitignore>>

ExecuteImplementation ==
  /\ pc = "execute"
  /\ execOrder' = ExecutionOrder(tasks)
  /\ tasks' = MarkCompleted(tasks, ExecutionOrder(tasks))
  /\ pc' = "update"
  /\ UNCHANGED <<result, feature_dir, self_tasks, args, plan, taskfiles, checklists,
                 gitignore, asked, response, git_rc, writes, orig, had_gitignore>>

\* update_tasks_file writes unless the file is gone or re.sub raised (run()
\* swallows the exception); run() then returns True.
UpdateWrites ==
  TasksFileThere /\ ~UpdateText(taskfiles[self_tasks].content, tasks).raised

UpdateTasksFile ==
  /\ pc = "update"
  /\ taskfiles' = IF UpdateWrites
                  THEN [taskfiles EXCEPT ![self_tasks].content =
                          UpdateText(taskfiles[self_tasks].content, tasks).content]
                  ELSE taskfiles
  /\ writes' = IF UpdateWrites THEN writes \cup {self_tasks} ELSE writes
  /\ pc' = "done"
  /\ result' = "True"
  /\ UNCHANGED <<feature_dir, self_tasks, args, plan, checklists, gitignore,
                 tasks, execOrder, asked, response, git_rc, orig, had_gitignore>>

Next ==
  \/ RunCheckPrerequisites
  \/ CheckChecklistsStatus
  \/ LoadImplementationContext
  \/ ProjectSetupVerification
  \/ ParseTasks
  \/ ExecuteImplementation
  \/ UpdateTasksFile

Spec == Init /\ [][Next]_vars

NextText ==
  \/ ParseTasks
  \/ ExecuteImplementation
  \/ UpdateTasksFile

SpecText == InitText /\ [][NextText]_vars


\* ------------------------------------------------------------------------
\* Properties
\* ------------------------------------------------------------------------
\* The text of the tasks file the run works on, and its lines.
FinalText == taskfiles[self_tasks].content

FinalLines == SplitLines(FinalText)

OrigLines == SplitLines(orig)

IsLineOf(line, ls) == \E k \in 1..Len(ls) : ls[k] = line

NoTaskCompleted == \A k \in 1..Len(tasks) : ~tasks[k].completed

AllTasksCompleted == \A k \in 1..Len(tasks) : tasks[k].completed

\* The process exit status: sys.exit(0 if success else 1); an uncaught
\* exception ends the interpreter with status 1.
ExitCode == IF result = "True" THEN 0 ELSE 1

Str_T001 == <<"T", "0", "0", "1">>

Str_T002 == <<"T", "0", "0", "2">>

Str_US1 == <<"U", "S", "1">>

\* The two records the end-to-end scenario expects from parse_tasks.
ExampleRecords(ts) ==
  /\ Len(ts) = 2
  /\ ts[1].id = Str_T001 /\ ts[1].is_parallel /\ ts[1].story = None
  /\ ts[2].id = Str_T002 /\ ~ts[2].is_parallel /\ ts[2].story = Str_US1

\* C1: for the two-line example file, parse_tasks yields T001 (parallel, no
\* story) and T002 (sequential, story "US1") in that order, and after run()
\* completes the file holds both lines with a checked box and the same text.
C1_EndToEnd ==
  /\ (orig = ExampleFile /\ pc = "execute") => ExampleRecords(tasks)
  /\ (orig = ExampleFile /\ pc = "done" /\ result = "True")
       => /\ IsLineOf(Example_1_checked, FinalLines)
          /\ IsLineOf(Example_2_checked, FinalLines)

\* C2: after parse, execute and update on an unmodified file, every parsed
\* task is completed and no unchecked task line is left in the file, whatever
\* the descriptions contain.
C2_AllChecked ==
  pc = "done" => (AllTasksCompleted /\ ParseText(FinalText) = <<>>)

\* The records of each line taken on its own, in file order.
RECURSIVE RecordsPerLine(_)
RecordsPerLine(ls) ==
  IF ls = <<>> THEN <<>> ELSE ParseText(Head(ls)) \o RecordsPerLine(Tail(ls))

\* C3: parse_tasks returns exactly one record per matching line, in file
\* order; a line that does not match adds no record and changes no other
\* line's record; no matching line gives the empty list.
C3_OneRecordPerLine ==
  pc = "execute" => tasks = RecordsPerLine(OrigLines)

\* C4: with --tasks-file P, the tasks path is P when parse_tasks and
\* update_tasks_file execute, and P is the only tasks file rewritten.
C4_ExplicitTasksFile ==
  (args.tasks_file # None /\ pc \in {"parse", "execute", "update"})
    => self_tasks = args.tasks_file

\* A checklist file with a line that is an unchecked item.
HasIncompleteLine(ls) ==
  \E k \in 1..Len(ls) : \E j \in 1..Len(FindAllItems(ls[k], 1)) :
    FindAllItems(ls[k], 1)[j] = " "

AnyIncomplete(files) ==
  \E k \in 1..Len(files) : HasIncompleteLine(SplitLines(files[k]))

\* The checklists are scanned: not bypassed, a feature directory, a
\* checklists directory.
Scanned == ~args.skip_checklists /\ Truthy(feature_dir) /\ checklists.exists

\* C5: the user is prompted exactly when the checklist directory exists and a
\* scanned file has an incomplete item; after a non-affirmative answer the
\* run fails, completes no task and writes neither tasks file nor .gitignore.
C5_ChecklistGate ==
  /\ pc \notin {"prereq", "checklists"}
       => (asked <=> (Scanned /\ AnyIncomplete(checklists.files)))
  /\ (asked /\ response # EOF /\ Lower(Strip(response)) \notin Affirmative)
       => /\ pc = "done"
          /\ result = "False"
          /\ NoTaskCompleted
          /\ writes = {}

\* The story tag a matched line carries ("US1" of "[US1]"), None without one.
TagOf(story_marker) ==
  IF story_marker # <<>> THEN SubSeq(story_marker, 2, Len(story_marker) - 1) ELSE None

\* The phase the grouping rule names for a tag and a description.
ExpectedPhase(tag, description) ==
  IF tag # None THEN tag
  ELSE IF Contains(Lower(description), Str_setup) THEN Str_setup
  ELSE IF Contains(Lower(description), Str_foundational) THEN Str_foundational
  ELSE Str_polish

PhasesAsExpected(ms, ts) ==
  \A k \in 1..Len(ts) :
    PhaseOf(ts[k]) = ExpectedPhase(TagOf(ms[k].story_marker), ts[k].description)

\* C6: a task tagged [US1] is in the phase named "US1" whatever its
\* description; an untagged task with "setup" (any case) is in setup, else
\* with "foundational" in foundational, else in polish.
C6_PhaseAssignment ==
  pc \in {"execute", "update", "done"} => PhasesAsExpected(FindAllTasks(orig, 1), tasks)

\* C7: when the git check fails or is non-zero and .gitignore was absent, it
\* is still absent after project_setup_verification and after the run.
C7_GitignoreOnlyInRepo ==
  (git_rc \in {"nonzero", "exception"} /\ ~had_gitignore) => ~gitignore.exists

\* No feature directory, or plan.md or tasks.md missing from it.
FatalInput ==
  \/ ~Truthy(feature_dir)
  \/ ~plan.exists
  \/ ~FileExists(TasksPath(feature_dir))

NothingWritten ==
  /\ writes = {}
  /\ gitignore = [exists |-> had_gitignore, content |-> <<>>]
  /\ \A path \in DOMAIN taskfiles : taskfiles[path].content = orig
  /\ NoTaskCompleted

\* C8: with no feature directory resolved, or plan.md or tasks.md missing,
\* the run stops before project setup, ends with exit code 1, writes nothing
\* (.gitignore neither created nor appended, tasks file not rewritten) and
\* marks no task completed.
C8_FatalInput ==
  (pc # "prereq" /\ FatalInput)
    => /\ pc \in {"checklists", "load", "done"}
       /\ NothingWritten
       /\ (pc = "done" => ExitCode = 1)

\* C8 happens: a run in a git-free tree whose plan.md names Python and whose
\* tasks.md is missing has ended in failure at the load step.
C8_Witness ==
  /\ pc = "done"
  /\ result = "False"
  /\ feature_dir = DirA
  /\ plan.exists
  /\ plan.content = Plan_python
  /\ ~FileExists(TasksPath(DirA))
  /\ ~had_gitignore
  /\ ~asked

\* Position of task i in the execution order.
PosOf(i) == CHOOSE p \in 1..Len(execOrder) : execOrder[p] = i

ExecutedOnce ==
  /\ Len(execOrder) = Len(tasks)
  /\ \A i \in 1..Len(tasks) : \E p \in 1..Len(execOrder) : execOrder[p] = i
  /\ AllTasksCompleted

SamePhase(i, j) == PhaseOf(tasks[i]) = PhaseOf(tasks[j])

\* i and j lie in one run of consecutive tasks of the same phase.
SameRun(i, j) ==
  \A k \in 1..Len(tasks) :
    ((i <= k /\ k <= j) \/ (j <= k /\ k <= i)) => SamePhase(i, k)

IsTaskLine(k) == ParseText(OrigLines[k]) # <<>>

\* C10: update_tasks_file keeps the number and order of lines and changes
\* only lines of parsed tasks; every other line is unchanged.
C10_RewriteFrame ==
  pc = "done"
    => /\ Len(FinalLines) = Len(OrigLines)
       /\ \A k \in 1..Len(OrigLines) :
            (k <= Len(FinalLines) /\ ~IsTaskLine(k)) => FinalLines[k] = OrigLines[k]

====
